---- MODULE Spec2Model ----
(***************************************************************************)
(* Payment instruction parser: the keyword scanner (parseInstruction), the *)
(* amount and date validators, the account resolver and the validation /   *)
(* execution pipeline (parseInstructionService).                           *)
(*                                                                         *)
(* A JavaScript string is a sequence of one-character strings, so that     *)
(* indexOf, substring, trim, split, toLowerCase and parseInt are computed  *)
(* character by character, with JavaScript's 0-based offsets.              *)
(***************************************************************************)
EXTENDS Integers, Sequences, FiniteSets, TLC

VARIABLES
    instruction,   \* serviceData.instruction
    accounts,      \* serviceData.accounts, the caller's list
    given,         \* the caller's list as it was handed in
    today,         \* the local calendar day new Date() gave, <<year, month, day>>
    tz,            \* the sign of the local zone's offset from UTC, as then read
    form,          \* how the instruction was put together (the tokens, the layout)
    amountStr,     \* the argument of a direct validateAmount call
    pc,            \* the position in parseInstructionService
    parsed,        \* const parsed
    amount,        \* const amount
    currencyUpper, \* const currencyUpper
    debitAccount,  \* const debitAccount (an index into accounts, 0: null)
    creditAccount, \* const creditAccount (an index into accounts, 0: null)
    isPending,     \* let isPending
    amountValidation, \* the value a direct validateAmount call returned
    response       \* let response

vars == <<instruction, accounts, given, today, tz, form, amountStr, pc, parsed,
          amount, currencyUpper, debitAccount, creditAccount, isPending,
          amountValidation, response>>

(***************************************************************************)
(* Strings                                                                 *)
(***************************************************************************)
LowerLetters == <<"a", "b", "c", "d", "e", "f", "g", "h", "i", "j", "k", "l", "m", "n", "o", "p", "q", "r", "s", "t", "u", "v", "w", "x", "y", "z">>
UpperLetters == <<"A", "B", "C", "D", "E", "F", "G", "H", "I", "J", "K", "L", "M", "N", "O", "P", "Q", "R", "S", "T", "U", "V", "W", "X", "Y", "Z">>
Digits == <<"0", "1", "2", "3", "4", "5", "6", "7", "8", "9">>

KW_debit == <<"d", "e", "b", "i", "t">>
KW_credit == <<"c", "r", "e", "d", "i", "t">>
KW_from_account == <<"f", "r", "o", "m", " ", "a", "c", "c", "o", "u", "n", "t">>
KW_for_credit_to_account == <<"f", "o", "r", " ", "c", "r", "e", "d", "i", "t", " ", "t", "o", " ", "a", "c", "c", "o", "u", "n", "t">>
KW_to_account == <<"t", "o", " ", "a", "c", "c", "o", "u", "n", "t">>
KW_for_debit_from_account == <<"f", "o", "r", " ", "d", "e", "b", "i", "t", " ", "f", "r", "o", "m", " ", "a", "c", "c", "o", "u", "n", "t">>
KW_on == <<" ", "o", "n", " ">>

\* null, where the code holds a string or null: no string, its one element
\* is not a character
Null == <<"null">>

SetMin(S) == CHOOSE x \in S : \A y \in S : x <= y
SetMax(S) == CHOOSE x \in S : \A y \in S : x >= y

IsSpace(c) == c \in {" ", "\t", "\n"}

LowerChar(c) ==
    IF \E i \in 1..26 : UpperLetters[i] = c
    THEN LowerLetters[CHOOSE i \in 1..26 : UpperLetters[i] = c]
    ELSE c

UpperChar(c) ==
    IF \E i \in 1..26 : LowerLetters[i] = c
    THEN UpperLetters[CHOOSE i \in 1..26 : LowerLetters[i] = c]
    ELSE c

toLowerCase(s) == [i \in 1..Len(s) |-> LowerChar(s[i])]

toUpperCase(s) == [i \in 1..Len(s) |-> UpperChar(s[i])]

trim(s) ==
    LET keep == {i \in 1..Len(s) : ~IsSpace(s[i])}
    IN  IF keep = {} THEN <<>> ELSE SubSeq(s, SetMin(keep), SetMax(keep))

startsWith(s, prefix) ==
    /\ Len(prefix) <= Len(s)
    /\ \A k \in 1..Len(prefix) : s[k] = prefix[k]

\* the 0-based offset of the first occurrence of needle in s, or -1
indexOf(s, needle) ==
    LET at == {i \in 0..(Len(s) - Len(needle)) :
                  \A k \in 1..Len(needle) : s[i + k] = needle[k]}
    IN  IF at = {} THEN -1 ELSE SetMin(at)

Clamp(i, n) == IF i < 0 THEN 0 ELSE IF i > n THEN n ELSE i

\* String.prototype.substring: both offsets are clamped to the string and
\* swapped when the first is the greater
substring(s, from, to) ==
    LET a == Clamp(from, Len(s))
        b == Clamp(to, Len(s))
        lo == IF a <= b THEN a ELSE b
        hi == IF a <= b THEN b ELSE a
    IN  SubSeq(s, lo + 1, hi)

substringFrom(s, from) == substring(s, from, Len(s))

charAt(s, i) == IF i >= 0 /\ i < Len(s) THEN s[i + 1] ELSE ""

RECURSIVE split(_, _)
\* String.prototype.split with a one-character separator: empty parts are kept
split(s, sep) ==
    LET at == {i \in 1..Len(s) : s[i] = sep}
    IN  IF at = {} THEN <<s>>
        ELSE <<SubSeq(s, 1, SetMin(at) - 1)>>
             \o split(SubSeq(s, SetMin(at) + 1, Len(s)), sep)

IsDigit(c) == \E i \in 1..10 : Digits[i] = c

DigitValue(c) == (CHOOSE i \in 1..10 : Digits[i] = c) - 1

RECURSIVE DigitsValue(_)
DigitsValue(ds) ==
    IF ds = <<>> THEN 0
    ELSE 10 * DigitsValue(SubSeq(ds, 1, Len(ds) - 1)) + DigitValue(ds[Len(ds)])

(***************************************************************************)
(* Numbers: an integer-valued Number is its sign and the numeral of its    *)
(* magnitude, so that no width is lost; a numeral of more than 53 bits is  *)
(* rounded to the nearest double where the text is read.                   *)
(***************************************************************************)
NaN == [nan |-> TRUE, neg |-> FALSE, mag |-> <<"0">>]

Num(neg, mag) == [nan |-> FALSE, neg |-> neg, mag |-> mag]

Zero == Num(FALSE, <<"0">>)

\* a run of digits without its leading zeros
StripZeros(ds) ==
    LET nz == {i \in 1..Len(ds) : ds[i] # "0"}
    IN  IF nz = {} THEN <<"0">> ELSE SubSeq(ds, SetMin(nz), Len(ds))

\* 2^53, up to which every integer is a double
TwoTo53 == <<"9", "0", "0", "7", "1", "9", "9", "2", "5", "4", "7", "4", "0", "9", "9", "2">>

\* a < b, two numerals of one length
NumeralLess(a, b) ==
    \E i \in 1..Len(a) :
        /\ DigitValue(a[i]) < DigitValue(b[i])
        /\ \A j \in 1..(i - 1) : a[j] = b[j]

RECURSIVE Increment(_)
\* the numeral of n + 1
Increment(ds) ==
    IF ds = <<>> THEN <<"1">>
    ELSE IF ds[Len(ds)] = "9" THEN Increment(SubSeq(ds, 1, Len(ds) - 1)) \o <<"0">>
    ELSE SubSeq(ds, 1, Len(ds) - 1) \o <<Digits[DigitValue(ds[Len(ds)]) + 2]>>

\* the numeral of n - 1, for an n that does not end in 0
Decrement(ds) == SubSeq(ds, 1, Len(ds) - 1) \o <<Digits[DigitValue(ds[Len(ds)])]>>

\* the integer a numeral of at most 16 digits is read as: itself up to 2^53;
\* between 2^53 and 2^54 the doubles are the even integers, and an odd one
\* goes to the neighbour whose half is even
RoundToDouble(mag) ==
    IF Len(mag) < 16 \/ (Len(mag) = 16 /\ ~NumeralLess(TwoTo53, mag)) THEN mag
    ELSE IF DigitValue(mag[Len(mag)]) % 2 = 0 THEN mag
    ELSE IF DigitsValue(SubSeq(mag, Len(mag) - 1, Len(mag))) % 4 = 1 THEN Decrement(mag)
    ELSE Increment(mag)

\* the value of a Number that an Int holds
IntOf(n) == IF n.neg THEN 0 - DigitsValue(n.mag) ELSE DigitsValue(n.mag)

\* balance < n, for a balance that an Int holds
BalanceBelow(balance, n) ==
    IF n.neg THEN balance < IntOf(n)
    ELSE IF Len(n.mag) > 9 THEN TRUE
    ELSE balance < IntOf(n)

\* n <= 0
NotPositive(n) == n.neg \/ n.mag = <<"0">>

\* parseInt(s, 10): leading white space is skipped, one sign is read, then the
\* longest run of digits; NaN when that run is empty
parseInt(s) ==
    LET body == {i \in 1..Len(s) : ~IsSpace(s[i])}
        t == IF body = {} THEN <<>> ELSE SubSeq(s, SetMin(body), Len(s))
        signed == t # <<>> /\ t[1] \in {"-", "+"}
        u == IF signed THEN Tail(t) ELSE t
        stop == {i \in 1..Len(u) : ~IsDigit(u[i])}
        run == IF stop = {} THEN u ELSE SubSeq(u, 1, SetMin(stop) - 1)
    IN  IF run = <<>> THEN NaN
        ELSE Num(signed /\ t[1] = "-", RoundToDouble(StripZeros(run)))

\* Number.prototype.toString of an integer below 10^21
toString(n) == IF n.neg /\ n.mag # <<"0">> THEN <<"-">> \o n.mag ELSE n.mag

(***************************************************************************)
(* Keyword scanner                                                         *)
(***************************************************************************)
ParseFailure(code) ==
    [type |-> "null", amount |-> Null, currency |-> Null, debit_account |-> Null,
     credit_account |-> Null, execute_by |-> Null, parseError |-> code]

\* executeBy || null
OrNull(s) == IF s = Null \/ s = <<>> THEN Null ELSE s

\* parseDebit without the check of the anchors' order
parseDebit_NoOrderCheck(normalized) ==
    LET debitPos == indexOf(normalized, KW_debit)
        fromAccountPos == indexOf(normalized, KW_from_account)
        forCreditPos == indexOf(normalized, KW_for_credit_to_account)
        onPos == indexOf(normalized, KW_on)
        amountCurrencyPart == trim(substring(normalized, debitPos + 5, fromAccountPos))
        parts == split(amountCurrencyPart, " ")
        creditAccountEnd == IF onPos # -1 THEN onPos ELSE Len(normalized)
    IN  IF fromAccountPos = -1 \/ forCreditPos = -1 THEN ParseFailure("SY01")
        ELSE IF Len(parts) < 2 THEN ParseFailure("SY03")
        ELSE [type |-> "DEBIT",
              amount |-> trim(parts[1]),
              currency |-> toUpperCase(trim(parts[2])),
              debit_account |->
                  trim(substring(normalized, fromAccountPos + 12, forCreditPos)),
              credit_account |->
                  trim(substring(normalized, forCreditPos + 21, creditAccountEnd)),
              execute_by |->
                  OrNull(IF onPos # -1
                         THEN trim(substringFrom(normalized, onPos + 4))
                         ELSE Null),
              parseError |-> "null"]

parseDebit(normalized) ==
    LET debitPos == indexOf(normalized, KW_debit)
        fromAccountPos == indexOf(normalized, KW_from_account)
        forCreditPos == indexOf(normalized, KW_for_credit_to_account)
        onPos == indexOf(normalized, KW_on)
        amountCurrencyPart == trim(substring(normalized, debitPos + 5, fromAccountPos))
        parts == split(amountCurrencyPart, " ")
        creditAccountEnd == IF onPos # -1 THEN onPos ELSE Len(normalized)
    IN  IF fromAccountPos = -1 \/ forCreditPos = -1 THEN ParseFailure("SY01")
        ELSE IF debitPos >= fromAccountPos \/ fromAccountPos >= forCreditPos
        THEN ParseFailure("SY02")
        ELSE IF Len(parts) < 2 THEN ParseFailure("SY03")
        ELSE [type |-> "DEBIT",
              amount |-> trim(parts[1]),
              currency |-> toUpperCase(trim(parts[2])),
              debit_account |->
                  trim(substring(normalized, fromAccountPos + 12, forCreditPos)),
              credit_account |->
                  trim(substring(normalized, forCreditPos + 21, creditAccountEnd)),
              execute_by |->
                  OrNull(IF onPos # -1
                         THEN trim(substringFrom(normalized, onPos + 4))
                         ELSE Null),
              parseError |-> "null"]

parseCredit(normalized) ==
    LET creditPos == indexOf(normalized, KW_credit)
        toAccountPos == indexOf(normalized, KW_to_account)
        forDebitPos == indexOf(normalized, KW_for_debit_from_account)
        onPos == indexOf(normalized, KW_on)
        amountCurrencyPart == trim(substring(normalized, creditPos + 6, toAccountPos))
        parts == split(amountCurrencyPart, " ")
        debitAccountEnd == IF onPos # -1 THEN onPos ELSE Len(normalized)
    IN  IF toAccountPos = -1 \/ forDebitPos = -1 THEN ParseFailure("SY01")
        ELSE IF creditPos >= toAccountPos \/ toAccountPos >= forDebitPos
        THEN ParseFailure("SY02")
        ELSE IF Len(parts) < 2 THEN ParseFailure("SY03")
        ELSE [type |-> "CREDIT",
              amount |-> trim(parts[1]),
              currency |-> toUpperCase(trim(parts[2])),
              debit_account |->
                  trim(substring(normalized, forDebitPos + 22, debitAccountEnd)),
              credit_account |->
                  trim(substring(normalized, toAccountPos + 10, forDebitPos)),
              execute_by |->
                  OrNull(IF onPos # -1
                         THEN trim(substringFrom(normalized, onPos + 4))
                         ELSE Null),
              parseError |-> "null"]

parseInstruction(instr) ==
    LET normalized == trim(toLowerCase(instr))
        isDebitFormat == startsWith(normalized, KW_debit)
        isCreditFormat == startsWith(normalized, KW_credit)
    IN  IF ~isDebitFormat /\ ~isCreditFormat THEN ParseFailure("SY03")
        ELSE IF isDebitFormat THEN parseDebit(normalized)
        ELSE parseCredit(normalized)

(***************************************************************************)
(* Amount and date validators                                              *)
(***************************************************************************)
Invalid == [valid |-> FALSE, value |-> Zero]

\* validateAmount without the comparison of the number's text with the token
validateAmount_NoRoundTrip(str) ==
    LET amountNum == parseInt(str)
    IN  IF str = Null \/ Len(str) = 0 THEN Invalid
        ELSE IF indexOf(str, <<"-">>) # -1 THEN Invalid
        ELSE IF indexOf(str, <<".">>) # -1 THEN Invalid
        ELSE IF amountNum.nan \/ NotPositive(amountNum) THEN Invalid
        ELSE [valid |-> TRUE, value |-> amountNum]

validateAmount(str) ==
    LET amountNum == parseInt(str)
    IN  IF str = Null \/ Len(str) = 0 THEN Invalid
        ELSE IF indexOf(str, <<"-">>) # -1 THEN Invalid
        ELSE IF indexOf(str, <<".">>) # -1 THEN Invalid
        ELSE IF amountNum.nan \/ NotPositive(amountNum) THEN Invalid
        ELSE IF toString(amountNum) # str THEN Invalid
        ELSE [valid |-> TRUE, value |-> amountNum]

validateDate(dateStr) ==
    LET yearNum == parseInt(substring(dateStr, 0, 4))
        monthNum == parseInt(substring(dateStr, 5, 7))
        dayNum == parseInt(substring(dateStr, 8, 10))
    IN  /\ dateStr # Null
        /\ Len(dateStr) # 0
        /\ Len(dateStr) = 10
        /\ charAt(dateStr, 4) = "-"
        /\ charAt(dateStr, 7) = "-"
        /\ ~(yearNum.nan \/ monthNum.nan \/ dayNum.nan)
        /\ ~(IntOf(monthNum) < 1 \/ IntOf(monthNum) > 12
              \/ IntOf(dayNum) < 1 \/ IntOf(dayNum) > 31)

(***************************************************************************)
(* Dates: new Date(dateStr) of a date-only ISO string is midnight UTC of   *)
(* that day; setHours(0, 0, 0, 0) moves an instant back to the midnight of *)
(* its LOCAL day; new Date() is the local present.                         *)
(***************************************************************************)
IsLeap(y) == (y % 4 = 0 /\ y % 100 # 0) \/ y % 400 = 0

DaysInMonth(y, m) ==
    IF m = 2 THEN (IF IsLeap(y) THEN 29 ELSE 28)
    ELSE IF m \in {4, 6, 9, 11} THEN 30 ELSE 31

RECURSIVE DaysBeforeMonth(_, _)
DaysBeforeMonth(y, m) ==
    IF m <= 1 THEN 0 ELSE DaysBeforeMonth(y, m - 1) + DaysInMonth(y, m - 1)

\* the days from 0000-01-01 to the day y-m-d
DayNumber(y, m, d) ==
    LET leaps == IF y = 0 THEN 0
                 ELSE ((y - 1) \div 4) - ((y - 1) \div 100) + ((y - 1) \div 400) + 1
    IN  365 * y + leaps + DaysBeforeMonth(y, m) + (d - 1)

\* a date-only ISO string every engine reads alike: four, two and two digits
\* naming a day of the calendar
IsIsoDate(dateStr) ==
    /\ Len(dateStr) = 10
    /\ \A i \in {1, 2, 3, 4, 6, 7, 9, 10} : IsDigit(dateStr[i])
    /\ dateStr[5] = "-" /\ dateStr[8] = "-"
    /\ LET y == DigitsValue(SubSeq(dateStr, 1, 4))
           m == DigitsValue(SubSeq(dateStr, 6, 7))
           d == DigitsValue(SubSeq(dateStr, 9, 10))
       IN  m \in 1..12 /\ d \in 1..DaysInMonth(y, m)

IsoDayNumber(dateStr) ==
    DayNumber(DigitsValue(SubSeq(dateStr, 1, 4)),
              DigitsValue(SubSeq(dateStr, 6, 7)),
              DigitsValue(SubSeq(dateStr, 9, 10)))

\* the local day that holds midnight UTC of day n: the day before, west of
\* Greenwich
LocalDayOfUtcMidnight(n, zone) == IF zone < 0 THEN n - 1 ELSE n

\* the values isFutureDate can return. What new Date makes of a string that
\* is no ISO date is the engine's choice (an Invalid Date compares false, a
\* lenient reading may not): both values.
isFutureDate(dateStr, now, zone) ==
    IF IsIsoDate(dateStr)
    THEN {LocalDayOfUtcMidnight(IsoDayNumber(dateStr), zone)
              > DayNumber(now[1], now[2], now[3])}
    ELSE BOOLEAN

(***************************************************************************)
(* Account resolver                                                        *)
(***************************************************************************)
\* the resolver that compares the ids without regard to letter case
findAccount_IgnoreCase(accs, accountId) ==
    LET hit == {i \in 1..Len(accs) : toLowerCase(accs[i].id) = toLowerCase(accountId)}
    IN  IF hit = {} THEN 0 ELSE SetMin(hit)

\* the index of the first account with this id, 0 for null
findAccount(accs, accountId) ==
    LET hit == {i \in 1..Len(accs) : accs[i].id = accountId}
    IN  IF hit = {} THEN 0 ELSE SetMin(hit)

\* the view with the debit account first and the credit account second
getAccountsInOrder_DebitFirst(accs, debitAccountId, creditAccountId) ==
    LET chosen == SelectSeq(accs, LAMBDA a : a.id = debitAccountId)
                  \o SelectSeq(accs, LAMBDA a : a.id = creditAccountId
                                                /\ a.id # debitAccountId)
    IN  [i \in 1..Len(chosen) |->
            [id |-> chosen[i].id, balance |-> chosen[i].balance,
             balance_before |-> chosen[i].balance,
             currency |-> toUpperCase(chosen[i].currency)]]

RECURSIVE getAccountsInOrder(_, _, _)
getAccountsInOrder(accs, debitAccountId, creditAccountId) ==
    IF accs = <<>> THEN <<>>
    ELSE LET head == Head(accs)
             rest == getAccountsInOrder(Tail(accs), debitAccountId, creditAccountId)
         IN  IF head.id = debitAccountId \/ head.id = creditAccountId
             THEN <<[id |-> head.id, balance |-> head.balance,
                     balance_before |-> head.balance,
                     currency |-> toUpperCase(head.currency)]>> \o rest
             ELSE rest

\* accountsInOrder.map((acc) => ({ ..., balance_before: acc.balance, ... }))
unchangedView(view) ==
    [i \in 1..Len(view) |->
        [id |-> view[i].id, balance |-> view[i].balance,
         balance_before |-> view[i].balance, currency |-> view[i].currency]]

\* the map of the immediate execution
updatedAccounts(view, debitId, creditId, amt) ==
    [i \in 1..Len(view) |->
        [id |-> view[i].id,
         balance |-> IF view[i].id = debitId THEN view[i].balance - amt
                     ELSE IF view[i].id = creditId THEN view[i].balance + amt
                     ELSE view[i].balance,
         balance_before |-> view[i].balance,
         currency |-> view[i].currency]]

(***************************************************************************)
(* Responses                                                               *)
(***************************************************************************)
NullAmount == [kind |-> "null", value |-> Zero]

NumberAmount(n) == [kind |-> "number", value |-> n]

NoResponse ==
    [type |-> "null", amount |-> NullAmount, currency |-> Null,
     debit_account |-> Null, credit_account |-> Null, execute_by |-> Null,
     status |-> "none", status_reason |-> "none", status_code |-> "none",
     accounts |-> <<>>]

\* the response of the stages that follow tokenization
Respond(p, amt, cur, status, reason, code, view) ==
    [type |-> p.type, amount |-> amt, currency |-> cur,
     debit_account |-> p.debit_account, credit_account |-> p.credit_account,
     execute_by |-> p.execute_by,
     status |-> status, status_reason |-> reason, status_code |-> code,
     accounts |-> view]

Fail(p, accs, amt, cur, reason, code) ==
    Respond(p, amt, cur, "failed", reason, code,
            unchangedView(getAccountsInOrder(accs, p.debit_account, p.credit_account)))

\* parsed.amount ? parseInt(parsed.amount, 10) : null
amountOrNull(str) ==
    IF str = Null \/ str = <<>> THEN NullAmount
    ELSE IF parseInt(str).nan THEN [kind |-> "NaN", value |-> Zero]
    ELSE NumberAmount(parseInt(str))

SUPPORTED_CURRENCIES == {<<"N", "G", "N">>, <<"U", "S", "D">>, <<"G", "B", "P">>, <<"G", "H", "S">>}

\* the days and the zones the clock is read in
Todays == {<<2025, 6, 15>>, <<2025, 12, 31>>}

Zones == {-1, 0, 1}

(***************************************************************************)
(* parseInstructionService, one action per stage                           *)
(***************************************************************************)
NotCalled == [called |-> FALSE, valid |-> FALSE, value |-> Zero]

Finish(r) == response' = r /\ pc' = "done"

Proceed(next) == response' = response /\ pc' = next

\* the caller's data and the clock are read, never written
Frame == UNCHANGED <<instruction, accounts, given, form, amountStr, amountValidation>>

NoClock == UNCHANGED <<today, tz>>

\* Tokenize with the request's accounts in the response of SY01 and SY02
Tokenize_ListsAccounts ==
    /\ pc = "tokenize"
    /\ LET p == parseInstruction(instruction)
       IN  /\ parsed' = p
           /\ IF p.parseError = "SY03"
              THEN Finish([type |-> "null", amount |-> NullAmount, currency |-> Null,
                           debit_account |-> Null, credit_account |-> Null,
                           execute_by |-> Null, status |-> "failed",
                           status_reason |-> "MALFORMED_INSTRUCTION",
                           status_code |-> "SY03", accounts |-> <<>>])
              ELSE IF p.parseError = "SY01" \/ p.parseError = "SY02"
              THEN Finish([type |-> p.type, amount |-> amountOrNull(p.amount),
                           currency |-> p.currency,
                           debit_account |-> p.debit_account,
                           credit_account |-> p.credit_account,
                           execute_by |-> p.execute_by, status |-> "failed",
                           status_reason |-> IF p.parseError = "SY01"
                                             THEN "MISSING_KEYWORDS"
                                             ELSE "INVALID_KEYWORD_ORDER",
                           status_code |-> p.parseError,
                           accounts |->
                               [i \in 1..Len(accounts) |->
                                   [id |-> accounts[i].id,
                                    balance |-> accounts[i].balance,
                                    balance_before |-> accounts[i].balance,
                                    currency |-> toUpperCase(accounts[i].currency)]]])
              ELSE Proceed("amount")
    /\ UNCHANGED <<amount, currencyUpper, debitAccount, creditAccount, isPending>>
    /\ Frame /\ NoClock

Tokenize ==
    /\ pc = "tokenize"
    /\ LET p == parseInstruction(instruction)
       IN  /\ parsed' = p
           /\ IF p.parseError = "SY03"
              THEN Finish([type |-> "null", amount |-> NullAmount, currency |-> Null,
                           debit_account |-> Null, credit_account |-> Null,
                           execute_by |-> Null, status |-> "failed",
                           status_reason |-> "MALFORMED_INSTRUCTION",
                           status_code |-> "SY03", accounts |-> <<>>])
              ELSE IF p.parseError = "SY01" \/ p.parseError = "SY02"
              THEN Finish([type |-> p.type, amount |-> amountOrNull(p.amount),
                           currency |-> p.currency,
                           debit_account |-> p.debit_account,
                           credit_account |-> p.credit_account,
                           execute_by |-> p.execute_by, status |-> "failed",
                           status_reason |-> IF p.parseError = "SY01"
                                             THEN "MISSING_KEYWORDS"
                                             ELSE "INVALID_KEYWORD_ORDER",
                           status_code |-> p.parseError, accounts |-> <<>>])
              ELSE Proceed("amount")
    /\ UNCHANGED <<amount, currencyUpper, debitAccount, creditAccount, isPending>>
    /\ Frame /\ NoClock

\* StageAmount with the currency looked at before the amount
StageAmount_CurrencyFirst ==
    /\ pc = "amount"
    /\ LET v == validateAmount(parsed.amount)
       IN  IF toUpperCase(parsed.currency) \notin SUPPORTED_CURRENCIES
           THEN /\ Finish(Fail(parsed, accounts,
                               IF v.valid THEN NumberAmount(v.value) ELSE NullAmount,
                               parsed.currency, "UNSUPPORTED_CURRENCY", "CU02"))
                /\ amount' = amount
           ELSE IF ~v.valid
           THEN /\ Finish(Fail(parsed, accounts, NullAmount, parsed.currency,
                               "INVALID_AMOUNT", "AM01"))
                /\ amount' = amount
           ELSE /\ Proceed("currency")
                /\ amount' = v.value
    /\ UNCHANGED <<parsed, currencyUpper, debitAccount, creditAccount, isPending>>
    /\ Frame /\ NoClock

StageAmount ==
    /\ pc = "amount"
    /\ LET v == validateAmount(parsed.amount)
       IN  IF ~v.valid
           THEN /\ Finish(Fail(parsed, accounts, NullAmount, parsed.currency,
                               "INVALID_AMOUNT", "AM01"))
                /\ amount' = amount
           ELSE /\ Proceed("currency")
                /\ amount' = v.value
    /\ UNCHANGED <<parsed, currencyUpper, debitAccount, creditAccount, isPending>>
    /\ Frame /\ NoClock

StageCurrency ==
    /\ pc = "currency"
    /\ currencyUpper' = toUpperCase(parsed.currency)
    /\ IF currencyUpper' \notin SUPPORTED_CURRENCIES
       THEN Finish(Fail(parsed, accounts, NumberAmount(amount), parsed.currency,
                        "UNSUPPORTED_CURRENCY", "CU02"))
       ELSE Proceed("accounts")
    /\ UNCHANGED <<parsed, amount, debitAccount, creditAccount, isPending>>
    /\ Frame /\ NoClock

StageFindAccounts ==
    /\ pc = "accounts"
    /\ debitAccount' = findAccount(accounts, parsed.debit_account)
    /\ creditAccount' = findAccount(accounts, parsed.credit_account)
    /\ IF debitAccount' = 0 \/ creditAccount' = 0
       THEN Finish(Fail(parsed, accounts, NumberAmount(amount), currencyUpper,
                        "ACCOUNT_NOT_FOUND", "AC03"))
       ELSE Proceed("distinct")
    /\ UNCHANGED <<parsed, amount, currencyUpper, isPending>>
    /\ Frame /\ NoClock

StageDistinct ==
    /\ pc = "distinct"
    /\ IF accounts[debitAccount].id = accounts[creditAccount].id
       THEN Finish(Fail(parsed, accounts, NumberAmount(amount), currencyUpper,
                        "SAME_ACCOUNT_ERROR", "AC02"))
       ELSE Proceed("account_currencies")
    /\ UNCHANGED <<parsed, amount, currencyUpper, debitAccount, creditAccount, isPending>>
    /\ Frame /\ NoClock

StageAccountCurrencies ==
    /\ pc = "account_currencies"
    /\ IF toUpperCase(accounts[debitAccount].currency)
              # toUpperCase(accounts[creditAccount].currency)
       THEN Finish(Fail(parsed, accounts, NumberAmount(amount), currencyUpper,
                        "CURRENCY_MISMATCH", "CU01"))
       ELSE Proceed("instruction_currency")
    /\ UNCHANGED <<parsed, amount, currencyUpper, debitAccount, creditAccount, isPending>>
    /\ Frame /\ NoClock

StageInstructionCurrency ==
    /\ pc = "instruction_currency"
    /\ IF currencyUpper # toUpperCase(accounts[debitAccount].currency)
       THEN Finish(Fail(parsed, accounts, NumberAmount(amount), currencyUpper,
                        "CURRENCY_MISMATCH", "CU01"))
       ELSE Proceed("date")
    /\ UNCHANGED <<parsed, amount, currencyUpper, debitAccount, creditAccount, isPending>>
    /\ Frame /\ NoClock

StageDate ==
    /\ pc = "date"
    /\ IF parsed.execute_by # Null /\ parsed.execute_by # <<>>
       THEN IF ~validateDate(parsed.execute_by)
            THEN /\ Finish(Fail(parsed, accounts, NumberAmount(amount), currencyUpper,
                                "MALFORMED_INSTRUCTION", "SY03"))
                 /\ isPending' = FALSE
                 /\ NoClock
            ELSE /\ \E now \in Todays, zone \in Zones :
                        /\ today' = now
                        /\ tz' = zone
                        /\ isPending' \in isFutureDate(parsed.execute_by, now, zone)
                 /\ Proceed("funds")
       ELSE /\ isPending' = FALSE
            /\ Proceed("funds")
            /\ NoClock
    /\ UNCHANGED <<parsed, amount, currencyUpper, debitAccount, creditAccount>>
    /\ Frame

StageFunds ==
    /\ pc = "funds"
    /\ IF ~isPending /\ BalanceBelow(accounts[debitAccount].balance, amount)
       THEN Finish(Fail(parsed, accounts, NumberAmount(amount), currencyUpper,
                        "INSUFFICIENT_FUNDS", "AC01"))
       ELSE Proceed("execute")
    /\ UNCHANGED <<parsed, amount, currencyUpper, debitAccount, creditAccount, isPending>>
    /\ Frame /\ NoClock

\* StageExecute with the balances moved for a pending transaction too
StageExecute_PendingMoves ==
    /\ pc = "execute"
    /\ LET accountsInOrder ==
               getAccountsInOrder(accounts, parsed.debit_account, parsed.credit_account)
       IN  Finish(Respond(parsed, NumberAmount(amount), currencyUpper,
                          IF isPending THEN "pending" ELSE "successful",
                          IF isPending THEN "TRANSACTION_PENDING"
                          ELSE "TRANSACTION_SUCCESSFUL",
                          IF isPending THEN "AP01" ELSE "AP00",
                          updatedAccounts(accountsInOrder,
                                          accounts[debitAccount].id,
                                          accounts[creditAccount].id,
                                          IntOf(amount))))
    /\ UNCHANGED <<parsed, amount, currencyUpper, debitAccount, creditAccount, isPending>>
    /\ Frame /\ NoClock

StageExecute ==
    /\ pc = "execute"
    /\ LET accountsInOrder ==
               getAccountsInOrder(accounts, parsed.debit_account, parsed.credit_account)
       IN  IF isPending
           THEN Finish(Respond(parsed, NumberAmount(amount), currencyUpper,
                               "pending", "TRANSACTION_PENDING", "AP01",
                               unchangedView(accountsInOrder)))
           ELSE Finish(Respond(parsed, NumberAmount(amount), currencyUpper,
                               "successful", "TRANSACTION_SUCCESSFUL", "AP00",
                               updatedAccounts(accountsInOrder,
                                               accounts[debitAccount].id,
                                               accounts[creditAccount].id,
                                               IntOf(amount))))
    /\ UNCHANGED <<parsed, amount, currencyUpper, debitAccount, creditAccount, isPending>>
    /\ Frame /\ NoClock

\* validateAmount, called on its own
CallValidateAmount ==
    /\ ~amountValidation.called
    /\ LET v == validateAmount(amountStr)
       IN  amountValidation' = [called |-> TRUE, valid |-> v.valid, value |-> v.value]
    /\ UNCHANGED <<instruction, accounts, given, today, tz, form, amountStr, pc, parsed,
                   amount, currencyUpper, debitAccount, creditAccount, isPending,
                   response>>

Next ==
    \/ Tokenize
    \/ StageAmount
    \/ StageCurrency
    \/ StageFindAccounts
    \/ StageDistinct
    \/ StageAccountCurrencies
    \/ StageInstructionCurrency
    \/ StageDate
    \/ StageFunds
    \/ StageExecute

(***************************************************************************)
(* Inputs                                                                  *)
(***************************************************************************)
MaxAccounts == 3



T_a == <<"a">>
T_b == <<"b">>
T_c == <<"c">>
T_1 == <<"1">>
T_2 == <<"2">>
T_x == <<"x">>
T_ngn == <<"n", "g", "n">>
T_usd == <<"u", "s", "d">>
T_eur == <<"e", "u", "r">>
T_NGN == <<"N", "G", "N">>
T_USD == <<"U", "S", "D">>
T_send == <<"s", "e", "n", "d">>
T_on == <<"o", "n">>
T_to == <<"t", "o">>
T_from == <<"f", "r", "o", "m">>
T_account == <<"a", "c", "c", "o", "u", "n", "t">>
D_20250614 == <<"2", "0", "2", "5", "-", "0", "6", "-", "1", "4">>
D_20250615 == <<"2", "0", "2", "5", "-", "0", "6", "-", "1", "5">>
D_20250616 == <<"2", "0", "2", "5", "-", "0", "6", "-", "1", "6">>
D_20260101 == <<"2", "0", "2", "6", "-", "0", "1", "-", "0", "1">>
D_month13 == <<"2", "0", "2", "5", "-", "1", "3", "-", "0", "1">>
D_lenient == <<"2", "x", "2", "5", "-", "0", "6", "-", "1", "6">>

Join(a, b) == a \o <<" ">> \o b

FirstAnchor(verb) == IF verb = KW_credit THEN KW_to_account ELSE KW_from_account

SecondAnchor(verb) ==
    IF verb = KW_credit THEN KW_for_debit_from_account ELSE KW_for_credit_to_account

\* the instruction a form stands for: the grammar's sentence, or that sentence
\* with its two anchors swapped, or with one of them left out, or in capitals
\* between blanks
Build(f) ==
    LET head == Join(f.verb, Join(f.amount, f.currency))
        body ==
            IF f.layout \in {"normal", "shouted"}
            THEN Join(FirstAnchor(f.verb), Join(f.first, Join(SecondAnchor(f.verb), f.second)))
            ELSE IF f.layout = "swapped"
            THEN Join(SecondAnchor(f.verb), Join(f.first, Join(FirstAnchor(f.verb), f.second)))
            ELSE IF f.layout = "no_first"
            THEN Join(f.first, Join(SecondAnchor(f.verb), f.second))
            ELSE Join(FirstAnchor(f.verb), Join(f.first, f.second))
        tail == IF f.date = Null THEN <<>> ELSE <<" ", "o", "n", " ">> \o f.date
        sentence == Join(head, body) \o tail
    IN  IF f.layout = "shouted" THEN <<" ">> \o toUpperCase(sentence) \o <<" ", " ">>
        ELSE sentence

Form(verb, amt, cur, first, second, date, layout) ==
    [verb |-> verb, amount |-> amt, currency |-> cur, first |-> first,
     second |-> second, date |-> date, layout |-> layout]

\* the sentences of the service runs
ServiceForms ==
    {Form(v, a, c, ids[1], ids[2], d, "normal") :
        v \in {KW_debit, KW_credit}, a \in {T_1, T_2, T_x}, c \in {T_ngn, T_eur},
        ids \in {<<T_a, T_b>>, <<T_b, T_a>>, <<T_a, T_a>>, <<T_a, T_c>>},
        d \in {Null, D_20250615, D_20250616, D_month13, D_lenient}}
    \cup
    {Form(v, a, T_usd, T_a, id, d, "normal") :
        v \in {KW_debit, KW_credit}, a \in {T_1, T_x}, id \in {T_b, T_c},
        d \in {Null, D_month13}}
    \cup
    {Form(KW_debit, a, T_ngn, ids[1], ids[2], d, "normal") :
        a \in {T_1, T_2}, ids \in {<<T_a, T_c>>, <<T_c, T_a>>},
        d \in {D_20250614, D_20260101}}
    \cup
    {Form(v, T_1, T_ngn, T_a, T_b, d, l) :
        v \in {KW_debit, KW_credit, T_send}, d \in {Null, D_month13},
        l \in {"swapped", "no_first", "no_second"}}

AccountPool ==
    {[id |-> T_a, balance |-> 1, currency |-> T_NGN],
     [id |-> T_a, balance |-> 2, currency |-> T_ngn],
     [id |-> T_b, balance |-> 0, currency |-> T_NGN],
     [id |-> T_b, balance |-> 1, currency |-> T_USD],
     [id |-> T_c, balance |-> 2, currency |-> T_NGN]}

\* the lists of at most n accounts of the pool, no account twice
RECURSIVE AccountLists(_)
AccountLists(n) ==
    IF n = 0 THEN {<<>>}
    ELSE LET shorter == AccountLists(n - 1)
         IN  shorter \cup
             {Append(l, a) : l \in {k \in shorter : Len(k) = n - 1},
                             a \in AccountPool} 

NoDuplicates(l) == \A i, j \in 1..Len(l) : i # j => l[i] # l[j]

Start(f, accs, tok) ==
    /\ form = f
    /\ instruction = Build(f)
    /\ accounts = accs
    /\ given = accs
    /\ today = <<0, 0, 0>>
    /\ tz = 0
    /\ amountStr = tok
    /\ pc = "tokenize"
    /\ parsed = ParseFailure("null")
    /\ amount = Zero
    /\ currencyUpper = Null
    /\ debitAccount = 0
    /\ creditAccount = 0
    /\ isPending = FALSE
    /\ amountValidation = NotCalled
    /\ response = NoResponse

Init ==
    \E f \in ServiceForms, accs \in {l \in AccountLists(MaxAccounts) : NoDuplicates(l)} :
        Start(f, accs, <<>>)

Spec == Init /\ [][Next]_vars

(***************************************************************************)
(* The stages of the pipeline, as the response is to be read               *)
(***************************************************************************)
Done == pc = "done"

HasDate == parsed.execute_by # Null /\ parsed.execute_by # <<>>

BothFound ==
    /\ findAccount(accounts, parsed.debit_account) # 0
    /\ findAccount(accounts, parsed.credit_account) # 0

TheDebit == accounts[findAccount(accounts, parsed.debit_account)]

TheCredit == accounts[findAccount(accounts, parsed.credit_account)]

\* stage i of the nine checks fails on the input (stages 2 to 9 are read on a
\* tokenized instruction, stages 5 to 9 on two resolved accounts)
StageFails(i) ==
    IF i = 1 THEN parsed.parseError # "null"
    ELSE /\ parsed.parseError = "null"
         /\ IF i = 2 THEN ~validateAmount(parsed.amount).valid
            ELSE IF i = 3 THEN toUpperCase(parsed.currency) \notin SUPPORTED_CURRENCIES
            ELSE IF i = 4 THEN ~BothFound
            ELSE /\ BothFound
                 /\ IF i = 5 THEN parsed.debit_account = parsed.credit_account
                    ELSE IF i = 6
                    THEN toUpperCase(TheDebit.currency) # toUpperCase(TheCredit.currency)
                    ELSE IF i = 7
                    THEN toUpperCase(parsed.currency) # toUpperCase(TheDebit.currency)
                    ELSE IF i = 8 THEN HasDate /\ ~validateDate(parsed.execute_by)
                    ELSE /\ validateAmount(parsed.amount).valid
                         /\ ~isPending
                         /\ BalanceBelow(TheDebit.balance,
                                         validateAmount(parsed.amount).value)

StageCode(i) ==
    IF i = 1 THEN parsed.parseError
    ELSE IF i = 2 THEN "AM01"
    ELSE IF i = 3 THEN "CU02"
    ELSE IF i = 4 THEN "AC03"
    ELSE IF i = 5 THEN "AC02"
    ELSE IF i = 6 \/ i = 7 THEN "CU01"
    ELSE IF i = 8 THEN "SY03"
    ELSE "AC01"

FailingStages == {i \in 1..9 : StageFails(i)}

\* C1: the response carries the code of the first failing stage of the fixed
\* order tokenization, amount, supported currency, accounts found, distinct
\* ids, account currencies, instruction currency, date, funds; AP01 or AP00
\* only when no stage fails
C1_FirstFailingStage ==
    Done =>
        IF FailingStages = {}
        THEN response.status_code = (IF isPending THEN "AP01" ELSE "AP00")
        ELSE response.status_code = StageCode(SetMin(FailingStages))

\* an input that breaks the amount, the currency and the account rule at once
C1_Witness ==
    /\ Done
    /\ {2, 3, 4} \subseteq FailingStages
    /\ response.status_code = "AM01"

(***************************************************************************)
(* The emitted account view                                                *)
(***************************************************************************)
RECURSIVE Sum(_, _)
Sum(view, field) ==
    IF view = <<>> THEN 0
    ELSE (IF field = "balance" THEN Head(view).balance ELSE Head(view).balance_before)
         + Sum(Tail(view), field)

\* the accounts of the input whose id the response names, in the input's order
Named ==
    SelectSeq(accounts,
              LAMBDA a : a.id = response.debit_account \/ a.id = response.credit_account)

Emitted == response.accounts

Debited == {i \in 1..Len(Emitted) :
               Emitted[i].balance = Emitted[i].balance_before - IntOf(response.amount.value)}

Credited == {i \in 1..Len(Emitted) :
                Emitted[i].balance = Emitted[i].balance_before + IntOf(response.amount.value)}

\* C2: on AP00 exactly one emitted account, the debit account, is down by the
\* amount, exactly one, the credit account, is up by it, at most these two are
\* emitted, and the emitted balances sum to what they summed to before
C2_ExactlyTwoMoved ==
    (Done /\ response.status = "successful" /\ response.status_code = "AP00") =>
        /\ Cardinality(Debited) = 1
        /\ \A i \in Debited : Emitted[i].id = response.debit_account
        /\ Cardinality(Credited) = 1
        /\ \A i \in Credited : Emitted[i].id = response.credit_account
        /\ Len(Emitted) <= 2
        /\ Sum(Emitted, "balance") = Sum(Emitted, "balance_before")

\* C3: a failed or pending response shows every emitted account with
\* balance_before = balance = its balance in the input, and the caller's list
\* is as it was handed in, whatever the outcome
C3_NoMutation ==
    /\ accounts = given
    /\ (Done /\ response.status \in {"failed", "pending"}) =>
           /\ Len(Emitted) = Len(Named)
           /\ \A i \in 1..Len(Emitted) :
                  /\ Emitted[i].balance_before = Emitted[i].balance
                  /\ Emitted[i].balance = Named[i].balance

\* a pending response that shows both accounts, the debit account short of funds
C3_Witness ==
    /\ Done
    /\ response.status = "pending"
    /\ Len(Emitted) = 2
    /\ BalanceBelow(TheDebit.balance, response.amount.value)

\* C4: the emitted accounts are exactly the input's accounts whose id is the
\* response's debit_account or credit_account, in the input's order
C4_InputOrder ==
    Done =>
        /\ Len(Emitted) = Len(Named)
        /\ \A i \in 1..Len(Emitted) :
               /\ Emitted[i].id = Named[i].id
               /\ Emitted[i].balance_before = Named[i].balance
               /\ Emitted[i].currency = toUpperCase(Named[i].currency)

\* the credit account stands before the debit account in the input, an
\* account the instruction does not name stands in the input too
C4_Witness ==
    /\ Done
    /\ Len(Emitted) = 2
    /\ Len(accounts) = 3
    /\ Emitted[1].id = response.credit_account
    /\ Emitted[2].id = response.debit_account
    /\ response.debit_account # response.credit_account

SyntaxCodes == {"SY03", "SY01", "SY02"}

\* C5 as claimed: a failure response with SY03, SY01 or SY02 has no accounts
C5_SyntaxCodesHaveNoAccounts ==
    (Done /\ response.status = "failed" /\ response.status_code \in SyntaxCodes) =>
        Emitted = <<>>

\* C5: a failure response of the tokenization (SY03, SY01, SY02) has no
\* accounts; the SY03 of the date stage shows the two resolved accounts
C5_TokenizationHasNoAccounts ==
    (Done /\ response.status = "failed" /\ response.status_code \in SyntaxCodes) =>
        IF parsed.parseError # "null"
        THEN Emitted = <<>> /\ response.status_code = parsed.parseError
        ELSE /\ response.status_code = "SY03"
             /\ HasDate /\ ~validateDate(parsed.execute_by)
             /\ Len(Emitted) >= 2
             /\ \E i, j \in 1..Len(Emitted) :
                    /\ Emitted[i].id = response.debit_account
                    /\ Emitted[j].id = response.credit_account

\* a tokenization failure on a request whose accounts the sentence names
C5_Witness ==
    /\ Done
    /\ response.status_code = "SY02"
    /\ Emitted = <<>>
    /\ \E i \in 1..Len(accounts) : accounts[i].id = form.first

(***************************************************************************)
(* Dates as the grammar has them                                           *)
(***************************************************************************)
\* YYYY-MM-DD: ten characters, "-" at 4 and 7, digits elsewhere, the month in
\* 1..12 and the day in 1..31
WellFormedDate(dateStr) ==
    /\ Len(dateStr) = 10
    /\ dateStr[5] = "-" /\ dateStr[8] = "-"
    /\ \A i \in {1, 2, 3, 4, 6, 7, 9, 10} : IsDigit(dateStr[i])
    /\ DigitsValue(SubSeq(dateStr, 6, 7)) \in 1..12
    /\ DigitsValue(SubSeq(dateStr, 9, 10)) \in 1..31

\* the response of an instruction that passed the stages before the date stage
ReachedDateStage ==
    /\ Done
    /\ parsed.parseError = "null"
    /\ response.status_code \notin {"AM01", "CU02", "AC03", "AC02", "CU01"}

\* strictly after the day the clock gave
AfterToday(dateStr) == IsoDayNumber(dateStr) > DayNumber(today[1], today[2], today[3])

\* C6: past the first eight stages, a valid date after today gives AP01
\* whatever the balance; no date, or a date of today or before, gives AC01
\* exactly when the debit balance is below the amount and AP00 otherwise
C6_FutureIsPending ==
    (ReachedDateStage /\ (HasDate => IsIsoDate(parsed.execute_by))) =>
        IF HasDate /\ AfterToday(parsed.execute_by)
        THEN response.status = "pending" /\ response.status_code = "AP01"
        ELSE IF BalanceBelow(TheDebit.balance, amount)
        THEN response.status_code = "AC01"
        ELSE response.status_code = "AP00"

\* C9: past the first seven stages, a date token that is no well-formed
\* YYYY-MM-DD fails with SY03, and is neither executed nor scheduled
C9_MalformedDateFails ==
    (ReachedDateStage /\ HasDate /\ ~WellFormedDate(parsed.execute_by)) =>
        response.status = "failed" /\ response.status_code = "SY03"

(***************************************************************************)
(* parseInstruction on the sentences of the grammar                        *)
(***************************************************************************)
ParseTokens == {T_1, T_a, T_on, T_to, T_from, T_account}

ParseForms ==
    {Form(v, a, c, x, y, d, l) :
        v \in {KW_debit, KW_credit, T_send}, a \in ParseTokens, c \in ParseTokens,
        x \in ParseTokens, y \in ParseTokens, d \in {Null, D_20250616},
        l \in {"normal", "swapped", "no_first", "no_second"}}
    \cup
    {Form(v, T_1, T_ngn, x, y, d, "shouted") :
        v \in {KW_debit, KW_credit, T_send}, x \in {T_a, T_on}, y \in {T_b, T_on},
        d \in {Null, D_20250616}}

InitParse == \E f \in ParseForms : Start(f, <<>>, <<>>)

SpecParse == InitParse /\ [][Tokenize]_vars

Tokenized == pc # "tokenize"

Normalized == trim(toLowerCase(instruction))

Occurs(needle) == indexOf(Normalized, needle) # -1

\* the sentence of the same tokens, as the grammar has it
WellFormedTwin == Build([form EXCEPT !.layout = "normal"])

\* C7: neither verb in front: SY03; else a required anchor absent: SY01; else
\* the first anchor at or after the second: SY02; so a DEBIT sentence that
\* tokenizes, with its two anchors swapped, is SY02
C7_SyntaxClasses ==
    Tokenized =>
        /\ IF ~startsWith(Normalized, KW_debit) /\ ~startsWith(Normalized, KW_credit)
           THEN parsed.parseError = "SY03"
           ELSE LET verb == IF startsWith(Normalized, KW_debit) THEN KW_debit
                            ELSE KW_credit
                IN  IF ~Occurs(FirstAnchor(verb)) \/ ~Occurs(SecondAnchor(verb))
                    THEN parsed.parseError = "SY01"
                    ELSE (indexOf(Normalized, FirstAnchor(verb))
                              >= indexOf(Normalized, SecondAnchor(verb)))
                             => parsed.parseError = "SY02"
        /\ (/\ form.layout = "swapped"
            /\ form.verb = KW_debit
            /\ parseInstruction(WellFormedTwin).parseError = "null")
               => parsed.parseError = "SY02"

\* a DEBIT sentence that tokenizes, its anchors swapped
C7_Witness ==
    /\ Tokenized
    /\ form.layout = "swapped"
    /\ form.verb = KW_debit
    /\ parseInstruction(WellFormedTwin).parseError = "null"
    /\ parsed.parseError = "SY02"

\* C10: the grammar's sentence of four tokens and an optional date parses,
\* with no parseError, to DEBIT or CREDIT with those tokens as amount, debit
\* and credit account and date, and the currency in capitals
C10_RoundTrip ==
    (Tokenized /\ form.layout = "normal" /\ form.verb \in {KW_debit, KW_credit}) =>
        parsed = [type |-> IF form.verb = KW_debit THEN "DEBIT" ELSE "CREDIT",
                  amount |-> form.amount,
                  currency |-> toUpperCase(form.currency),
                  debit_account |-> IF form.verb = KW_debit THEN form.first
                                    ELSE form.second,
                  credit_account |-> IF form.verb = KW_debit THEN form.second
                                     ELSE form.first,
                  execute_by |-> form.date,
                  parseError |-> "null"]

(***************************************************************************)
(* validateAmount on every short token, alone and in the service           *)
(***************************************************************************)
MaxAmountLen == 3

AmountAlphabet == {"0", "1", "5", "-", ".", "+", "x", " "}

RECURSIVE Tokens(_)
\* the strings of at most n characters of the alphabet
Tokens(n) ==
    IF n = 0 THEN {<<>>}
    ELSE LET shorter == Tokens(n - 1)
         IN  shorter \cup
             {Append(t, ch) : t \in {k \in shorter : Len(k) = n - 1},
                              ch \in AmountAlphabet}

T_500 == <<"5", "0", "0">>

\* 2^53, the integer above it and the even integer above that
WideTokens == {TwoTo53, <<"9", "0", "0", "7", "1", "9", "9", "2", "5", "4", "7", "4", "0", "9", "9", "3">>, <<"9", "0", "0", "7", "1", "9", "9", "2", "5", "4", "7", "4", "0", "9", "9", "4">>}

NamedTokens == WideTokens \cup {<<"0", "0", "7">>, <<"1", "2", ".", "5">>, <<"-", "3">>, T_500, <<>>}

FundedAccounts ==
    <<[id |-> T_a, balance |-> 1000, currency |-> T_NGN],
      [id |-> T_b, balance |-> 0, currency |-> T_NGN]>>

InitAmount ==
    \E tok \in Tokens(MaxAmountLen) \cup NamedTokens :
        Start(Form(KW_debit, tok, T_ngn, T_a, T_b, Null, "normal"), FundedAccounts, tok)

NextAmount == Next \/ CallValidateAmount

SpecAmount == InitAmount /\ [][NextAmount]_vars

\* the numeral of an integer above 0: digits only, at least one, the first not 0
IsCanonicalPositive(str) ==
    /\ str # Null
    /\ Len(str) > 0
    /\ \A i \in 1..Len(str) : IsDigit(str[i])
    /\ str[1] # "0"

\* the numerals the doubles keep: up to 2^53 all of them, then, up to 16
\* digits, the even ones
KeptByDouble(str) ==
    \/ Len(str) < 16
    \/ Len(str) = 16 /\ (~NumeralLess(TwoTo53, str) \/ DigitValue(str[16]) % 2 = 0)

\* C8 as claimed: validateAmount accepts exactly the numerals of the integers
\* above 0; a response's amount is null or an integer above 0, and is not
\* null exactly when the amount token was accepted
C8_AcceptsEveryNumeral ==
    /\ amountValidation.called =>
           (amountValidation.valid <=> IsCanonicalPositive(amountStr))
    /\ Done =>
           /\ response.amount.kind \in {"null", "number"}
           /\ response.amount.kind = "number" => ~NotPositive(response.amount.value)
           /\ response.amount.kind # "null" <=>
                  (parsed.parseError = "null" /\ IsCanonicalPositive(parsed.amount))

\* C8: validateAmount accepts exactly the numerals of the integers above 0
\* that come back unchanged from a double, which all up to 2^53 do, with the
\* integer as value; a response's amount is null or an integer above 0, and
\* is not null exactly when the amount token was accepted
C8_AmountCanonical ==
    /\ amountValidation.called =>
           /\ amountValidation.valid <=>
                  (IsCanonicalPositive(amountStr) /\ KeptByDouble(amountStr))
           /\ amountValidation.valid => amountValidation.value = Num(FALSE, amountStr)
    /\ Done =>
           /\ response.amount.kind \in {"null", "number"}
           /\ response.amount.kind = "number" =>
                  /\ ~NotPositive(response.amount.value)
                  /\ response.amount.value = Num(FALSE, parsed.amount)
           /\ response.amount.kind # "null" <=>
                  /\ parsed.parseError = "null"
                  /\ IsCanonicalPositive(parsed.amount)
                  /\ KeptByDouble(parsed.amount)

\* 500 is accepted with the value 500, alone and in the service
C8_Witness ==
    /\ amountValidation.called
    /\ amountStr = T_500
    /\ amountValidation.valid
    /\ IntOf(amountValidation.value) = 500
    /\ Done
    /\ response.status_code = "AP00"
    /\ response.amount = NumberAmount(Num(FALSE, T_500))

(***************************************************************************)
(* Letter case of the account identifiers                                  *)
(***************************************************************************)
T_A == <<"A">>
T_B == <<"B">>
T_Ab == <<"A", "b">>
T_ab == <<"a", "b">>

\* accounts whose ids differ in letter case only, and one that stands alone
CasePool ==
    {[id |-> T_A, balance |-> 2, currency |-> T_NGN],
     [id |-> T_a, balance |-> 2, currency |-> T_NGN],
     [id |-> T_b, balance |-> 0, currency |-> T_NGN],
     [id |-> T_Ab, balance |-> 1, currency |-> T_NGN]}

\* the lists of at most n accounts of the pool
RECURSIVE CaseLists(_)
CaseLists(n) ==
    IF n = 0 THEN {<<>>}
    ELSE LET shorter == CaseLists(n - 1)
         IN  shorter \cup
             {Append(l, a) : l \in {k \in shorter : Len(k) = n - 1},
                             a \in CasePool}

\* sentences that name their accounts in either letter case
CaseForms ==
    {Form(v, T_1, T_ngn, first, second, d, l) :
        v \in {KW_debit, KW_credit},
        first \in {T_a, T_A, T_b, T_Ab, T_ab},
        second \in {T_a, T_A, T_b, T_B, T_ab},
        d \in {Null, D_20260101},
        l \in {"normal", "shouted"}}
    \cup
    {Form(KW_debit, a, c, T_A, T_b, d, "normal") :
        a \in {T_1, T_2, T_x}, c \in {T_ngn, T_eur, T_NGN}, d \in {Null, D_month13}}

InitCase ==
    \E f \in CaseForms, accs \in {l \in CaseLists(MaxAccounts) : NoDuplicates(l)} :
        Start(f, accs, <<>>)

SpecCase == InitCase /\ [][Next]_vars

HasUpperCase(id) == toLowerCase(id) # id

\* the accounts of the input with an uppercase character in the id that the
\* instruction names, in whatever letter case it writes them
NamedInUpperCase ==
    {i \in 1..Len(accounts) :
        /\ HasUpperCase(accounts[i].id)
        /\ toLowerCase(accounts[i].id) \in {parsed.debit_account, parsed.credit_account}}

\* tokenization, amount and currency pass: the instruction reaches the resolver
ReachesResolver == Done /\ FailingStages \cap {1, 2, 3} = {}

\* no account with an uppercase id is resolved or emitted, and the ids of the
\* response are in lowercase
LowercaseOnly ==
    /\ debitAccount # 0 => ~HasUpperCase(accounts[debitAccount].id)
    /\ creditAccount # 0 => ~HasUpperCase(accounts[creditAccount].id)
    /\ \A i \in 1..Len(Emitted) : ~HasUpperCase(Emitted[i].id)
    /\ response.debit_account # Null => ~HasUpperCase(response.debit_account)
    /\ response.credit_account # Null => ~HasUpperCase(response.credit_account)

\* C11 as claimed: no account with an uppercase id is resolved, the ids of a
\* result are lowercase, and an otherwise valid instruction that names such an
\* account fails with AC03
C11_UppercaseIdFailsAC03 ==
    /\ LowercaseOnly
    /\ (ReachesResolver /\ NamedInUpperCase # {}) => response.status_code = "AC03"

\* C11: no account with an uppercase id is resolved, the ids of a result are
\* lowercase, and an otherwise valid instruction that names such an account
\* fails with AC03 unless the input holds accounts with the lowercase forms of
\* both named ids, which are resolved in its place
C11_UppercaseIdNeverResolved ==
    /\ LowercaseOnly
    /\ (ReachesResolver /\ NamedInUpperCase # {}) =>
           IF BothFound
           THEN /\ response.status_code # "AC03"
                /\ TheDebit.id = parsed.debit_account
                /\ TheCredit.id = parsed.credit_account
           ELSE response.status_code = "AC03"

\* an instruction in capitals names the account Ab, alone under that name in
\* the input, and fails with AC03 with only the other account emitted
C11_Witness ==
    /\ ReachesResolver
    /\ form.layout = "shouted"
    /\ \E i \in NamedInUpperCase : accounts[i].id = T_Ab
    /\ response.status_code = "AC03"
    /\ response.debit_account = T_ab
    /\ Len(Emitted) = 1

====
